---- MODULE Spec2Model ----
(***************************************************************************)
(* py-caskdb: the record codec of format.py and the DiskStorage engine of  *)
(* disk_store.py.                                                          *)
(*                                                                         *)
(* A str is a sequence of code points, a bytes object a sequence of        *)
(* numbers 0..255.  str.encode() and bytes.decode() are modelled as UTF-8  *)
(* really encodes and decodes, so len(str) and the number of encoded bytes *)
(* differ for non-ASCII text.  struct's "III" is modelled little-endian    *)
(* (the byte order of the usual hosts).                                    *)
(*                                                                         *)
(* The data file is split the way the handle opened with "ab+" splits it:  *)
(* disk is the bytes the operating system holds for the path, wbuf the     *)
(* bytes the handle has accepted in write() and not yet handed over, pos   *)
(* the handle's offset in the operating system.  The handle flushes wbuf   *)
(* before every seek and on close, and because the file is opened for      *)
(* append the operating system puts every write at its current end.        *)
(***************************************************************************)
EXTENDS Integers, Sequences, FiniteSets, TLC

\* ------------------------------------------------------------------ bounds
\* number of records that may be appended to the file in one behaviour
MaxRecords == 3

\* keys and values the engine's callers pass ("a", "é"; "", "b", "é") and the
\* seconds time.time() returns; the engine never looks at the timestamp
Keys == {<<97>>, <<233>>}
Values == {<<>>, <<98>>, <<233>>}
Timestamps == {258}

\* inputs of the codec on its own
CodecTimestamps == {0, 1, 258, 2147483647}
CodecTexts == {<<>>, <<97>>, <<97, 98>>, <<233>>, <<233, 98>>, <<8364>>}

\* header fields handed to encode_header on its own (the largest is the
\* largest number the checker's integers hold)
HeaderInts == {0, 1, 258, 16909060, 2147483647}

\* failed writes whose KeyDir entries are outstanding at one time
MaxDangling == 1

\* ------------------------------------------------------------- format.py
HEADER_SIZE == 12

\* Python's s[a:b] on a sequence, 0-based, half open, clipped to the sequence
Slice(s, a, b) ==
    LET lo == IF a < 0 THEN 0 ELSE IF a > Len(s) THEN Len(s) ELSE a
        hi == IF b > Len(s) THEN Len(s) ELSE b
    IN IF hi <= lo THEN <<>> ELSE SubSeq(s, lo + 1, hi)

\* one code point as UTF-8
Utf8Char(c) ==
    IF c < 128 THEN <<c>>
    ELSE IF c < 2048 THEN <<192 + (c \div 64), 128 + (c % 64)>>
    ELSE IF c < 65536
         THEN <<224 + (c \div 4096), 128 + ((c \div 64) % 64), 128 + (c % 64)>>
    ELSE <<240 + (c \div 262144), 128 + ((c \div 4096) % 64),
           128 + ((c \div 64) % 64), 128 + (c % 64)>>

\* str.encode()
RECURSIVE StrEncode(_)
StrEncode(s) ==
    IF s = <<>> THEN <<>> ELSE Utf8Char(Head(s)) \o StrEncode(Tail(s))

IsCont(b) == b >= 128 /\ b <= 191

\* the number of bytes of the well-formed UTF-8 sequence b starts with, 0 if
\* it starts with none
Utf8Width(b) ==
    LET h == b[1] IN
    IF h < 128 THEN 1
    ELSE IF h >= 194 /\ h <= 223 /\ Len(b) >= 2 /\ IsCont(b[2]) THEN 2
    ELSE IF /\ h >= 224 /\ h <= 239 /\ Len(b) >= 3
            /\ IsCont(b[2]) /\ IsCont(b[3])
            /\ (h = 224 => b[2] >= 160) /\ (h = 237 => b[2] <= 159) THEN 3
    ELSE IF /\ h >= 240 /\ h <= 244 /\ Len(b) >= 4
            /\ IsCont(b[2]) /\ IsCont(b[3]) /\ IsCont(b[4])
            /\ (h = 240 => b[2] >= 144) /\ (h = 244 => b[2] <= 143) THEN 4
    ELSE 0

Utf8Point(b, w) ==
    IF w = 1 THEN b[1]
    ELSE IF w = 2 THEN (b[1] - 192) * 64 + (b[2] - 128)
    ELSE IF w = 3 THEN (b[1] - 224) * 4096 + (b[2] - 128) * 64 + (b[3] - 128)
    ELSE (b[1] - 240) * 262144 + (b[2] - 128) * 4096
         + (b[3] - 128) * 64 + (b[4] - 128)

\* bytes.decode(): the text, or UnicodeDecodeError
RECURSIVE BytesDecode(_)
BytesDecode(b) ==
    IF b = <<>> THEN [err |-> "none", s |-> <<>>]
    ELSE LET w == Utf8Width(b) IN
         IF w = 0 THEN [err |-> "UnicodeDecodeError", s |-> <<>>]
         ELSE LET r == BytesDecode(Slice(b, w, Len(b))) IN
              IF r.err # "none" THEN r
              ELSE [err |-> "none", s |-> <<Utf8Point(b, w)>> \o r.s]

\* one "I" field of struct.pack / struct.unpack
Pack32(n) ==
    <<n % 256, (n \div 256) % 256, (n \div 65536) % 256, (n \div 16777216) % 256>>

Unpack32(b) == b[1] + 256 * b[2] + 65536 * b[3] + 16777216 * b[4]

encode_header(timestamp, key_size, value_size) ==
    Pack32(timestamp) \o Pack32(key_size) \o Pack32(value_size)

\* decode_header that returns the two sizes in the wrong order
decode_header_swapped(data) ==
    IF Len(data) # HEADER_SIZE
    THEN [err |-> "struct.error", timestamp |-> 0, key_size |-> 0, value_size |-> 0]
    ELSE [err |-> "none",
          timestamp |-> Unpack32(SubSeq(data, 1, 4)),
          key_size |-> Unpack32(SubSeq(data, 9, 12)),
          value_size |-> Unpack32(SubSeq(data, 5, 8))]

\* struct.unpack("III", data) raises struct.error unless data has 12 bytes
decode_header(data) ==
    IF Len(data) # HEADER_SIZE
    THEN [err |-> "struct.error", timestamp |-> 0, key_size |-> 0, value_size |-> 0]
    ELSE [err |-> "none",
          timestamp |-> Unpack32(SubSeq(data, 1, 4)),
          key_size |-> Unpack32(SubSeq(data, 5, 8)),
          value_size |-> Unpack32(SubSeq(data, 9, 12))]

\* encode_kv that returns the payload without the header
encode_kv_noheader(timestamp, key, value) ==
    LET data == StrEncode(key) \o StrEncode(value)
    IN [sz |-> HEADER_SIZE + Len(data), data |-> data]

\* len(key) and len(value) count code points; data is the encoded bytes
encode_kv(timestamp, key, value) ==
    LET header == encode_header(timestamp, Len(key), Len(value))
        data == StrEncode(key) \o StrEncode(value)
    IN [sz |-> HEADER_SIZE + Len(data), data |-> header \o data]

decode_kv(data) ==
    LET h == decode_header(Slice(data, 0, HEADER_SIZE)) IN
    IF h.err # "none"
    THEN [err |-> h.err, timestamp |-> 0, key |-> <<>>, value |-> <<>>]
    ELSE LET key == BytesDecode(Slice(data, HEADER_SIZE, HEADER_SIZE + h.key_size))
             value == BytesDecode(Slice(data, HEADER_SIZE + h.key_size, Len(data)))
         IN IF key.err # "none"
            THEN [err |-> key.err, timestamp |-> 0, key |-> <<>>, value |-> <<>>]
            ELSE IF value.err # "none"
            THEN [err |-> value.err, timestamp |-> 0, key |-> <<>>, value |-> <<>>]
            ELSE [err |-> "none", timestamp |-> h.timestamp,
                  key |-> key.s, value |-> value.s]

\* --------------------------------------------------------- disk_store.py
VARIABLES
    disk,        \* bytes the operating system holds for file_name
    wbuf,        \* self.file: bytes written and not yet flushed
    pos,         \* self.file: offset of the handle in the operating system
    key_dir,     \* self.key_dir: key -> <<value_pos, value_sz>>
    state,       \* "None": no instance; "Scanning": inside __init__'s loop;
                 \* "Open"; "Closed": close() has returned
    file_size,   \* __init__'s local file_size
    bytes_read,  \* __init__'s local bytes_read
    lastOp,      \* the call that returned last: [op, key, ret, err]
    lastVal,     \* history: key -> value of the last set that returned normally
    landed,      \* history: the records handed to the operating system, in order
    wrecs,       \* history: the records that make up wbuf
    truncOf,     \* history: the file as it was before it was truncated
    dirAtClose,  \* history: self.key_dir when close() returned last
    c_phase, c_in, c_enc, c_buf, c_out   \* the codec called on its own

engine_vars == <<disk, wbuf, pos, key_dir, state, file_size, bytes_read,
                 lastOp, lastVal, landed, wrecs, truncOf, dirAtClose>>
codec_vars == <<c_phase, c_in, c_enc, c_buf, c_out>>
vars == <<disk, wbuf, pos, key_dir, state, file_size, bytes_read,
          lastOp, lastVal, landed, wrecs, truncOf, dirAtClose,
          c_phase, c_in, c_enc, c_buf, c_out>>

EmptyDir == <<>>

Put(d, k, e) == [x \in (DOMAIN d) \cup {k} |-> IF x = k THEN e ELSE d[x]]

Op(op, key, ret, err) == [op |-> op, key |-> key, ret |-> ret, err |-> err]

RECURSIVE ConcatData(_)
ConcatData(recs) ==
    IF recs = <<>> THEN <<>> ELSE Head(recs).data \o ConcatData(Tail(recs))

\* a write of the handle's bytes without the append flag: at the offset
RawWriteAtPos(d, p, data) ==
    [disk |-> Slice(d, 0, p) \o data \o Slice(d, p + Len(data), Len(d)),
     pos |-> p + Len(data)]

\* open(file_name, "ab+"): every write goes to the end of the file as it is
\* at the time of the write, whatever the offset, and leaves the offset there
RawWrite(d, p, data) ==
    [disk |-> d \o data, pos |-> Len(d) + Len(data)]

\* a handle that drops its pending bytes where it should hand them over
FlushDiscard(d, p, buf) == [disk |-> d, pos |-> p]

\* the handle hands its pending bytes over (before a seek, on close)
Flush(d, p, buf) ==
    IF buf = <<>> THEN [disk |-> d, pos |-> p] ELSE RawWrite(d, p, buf)

\* self.file.tell()
Tell(p, buf) == p + Len(buf)

\* get without its last seek: the handle stays where the read of the value ended
SeekEndSkipped(d, kd, key) ==
    IF kd[key][1] + kd[key][2] < Len(d) THEN kd[key][1] + kd[key][2] ELSE Len(d)

\* self.file.seek(0, 2) at the end of get, on file contents d
SeekEnd(d, kd, key) == Len(d)

\* the loop condition of __init__ with < for !=
ScanContinueLess(br, fs) == br < fs

\* while bytes_read != file_size
ScanContinue(br, fs) == br # fs

\* one iteration of __init__'s loop, from offset p of file contents d
ScanBody(d, p, kd, br) ==
    LET header == Slice(d, p, p + HEADER_SIZE)
        h == decode_header(header)
    IN IF h.err # "none"
       THEN [err |-> h.err, key_dir |-> kd, pos |-> p + Len(header), bytes_read |-> br]
       ELSE LET p2 == (p + Len(header)) - HEADER_SIZE
                data == Slice(d, p2, p2 + HEADER_SIZE + h.key_size + h.value_size)
                kv == decode_kv(data)
                p3 == p2 + Len(data)
            IN IF kv.err # "none"
               THEN [err |-> kv.err, key_dir |-> kd, pos |-> p3, bytes_read |-> br]
               ELSE [err |-> "none",
                     key_dir |-> Put(kd, kv.key, <<p3 - h.value_size, h.value_size>>),
                     pos |-> p3,
                     bytes_read |-> br + HEADER_SIZE + h.key_size + h.value_size]

\* set that takes the position from the index bookkeeping, not from the handle
set_unguarded(st, kd, tell, timestamp, key, value) ==
    LET enc == encode_kv(timestamp, key, value) IN
    [err |-> IF st = "Open" THEN "none" ELSE "ValueError",
     key_dir |-> Put(kd, key, <<tell + enc.sz - Len(value), Len(value)>>),
     data |-> IF st = "Open" THEN enc.data ELSE <<>>]

\* DiskStorage.set: tell() on a closed file raises ValueError before the
\* assignment to key_dir
set(st, kd, tell, timestamp, key, value) ==
    IF st # "Open"
    THEN [err |-> "ValueError", key_dir |-> kd, data |-> <<>>]
    ELSE LET enc == encode_kv(timestamp, key, value) IN
         [err |-> "none",
          key_dir |-> Put(kd, key, <<tell + enc.sz - Len(value), Len(value)>>),
          data |-> enc.data]

\* get that indexes key_dir without the membership test
get_keyerror(st, kd, d, key) ==
    IF key \notin DOMAIN kd THEN [err |-> "KeyError", ret |-> <<>>]
    ELSE IF st # "Open" THEN [err |-> "ValueError", ret |-> <<>>]
    ELSE LET r == BytesDecode(Slice(d, kd[key][1], kd[key][1] + kd[key][2]))
         IN [err |-> r.err, ret |-> r.s]

\* DiskStorage.get on file contents d (the pending bytes flushed)
get(st, kd, d, key) ==
    IF key \notin DOMAIN kd THEN [err |-> "none", ret |-> <<>>]
    ELSE IF st # "Open" THEN [err |-> "ValueError", ret |-> <<>>]
    ELSE IF kd[key][1] < 0 THEN [err |-> "OSError", ret |-> <<>>]
    ELSE LET r == BytesDecode(Slice(d, kd[key][1], kd[key][1] + kd[key][2]))
         IN [err |-> r.err, ret |-> r.s]

NoOp == Op("none", <<>>, <<>>, "none")

CodecOff ==
    /\ c_phase = "off"
    /\ c_in = [timestamp |-> 0, key |-> <<>>, value |-> <<>>]
    /\ c_enc = [sz |-> 0, data |-> <<>>]
    /\ c_buf = <<>>
    /\ c_out = [err |-> "none", timestamp |-> 0, key |-> <<>>, value |-> <<>>]

\* no instance yet, the path does not exist
Init ==
    /\ disk = <<>>
    /\ wbuf = <<>>
    /\ pos = 0
    /\ key_dir = EmptyDir
    /\ state = "None"
    /\ file_size = 0
    /\ bytes_read = 0
    /\ lastOp = NoOp
    /\ lastVal = EmptyDir
    /\ landed = <<>>
    /\ wrecs = <<>>
    /\ truncOf = <<>>
    /\ dirAtClose = EmptyDir
    /\ CodecOff

\* DiskStorage(file_name) up to the first test of the loop condition
Open ==
    /\ state \in {"None", "Closed"}
    /\ key_dir' = EmptyDir
    /\ wbuf' = <<>>
    /\ IF Len(disk) # 0 /\ ScanContinue(0, Len(disk))
       THEN /\ state' = "Scanning"
            /\ pos' = 0
            /\ file_size' = Len(disk)
            /\ lastOp' = lastOp
       ELSE /\ state' = "Open"
            /\ pos' = Len(disk)
            /\ file_size' = 0
            /\ lastOp' = Op("open", <<>>, <<>>, "none")
    /\ bytes_read' = 0
    /\ UNCHANGED <<disk, lastVal, landed, wrecs, truncOf, dirAtClose>>
    /\ UNCHANGED codec_vars

\* one iteration of the loop, the test that follows it, and when the test
\* ends the loop the seek to the end of the file
ScanStep ==
    /\ state = "Scanning"
    /\ LET r == ScanBody(disk, pos, key_dir, bytes_read) IN
       IF r.err # "none"
       THEN /\ state' = "None"
            /\ key_dir' = EmptyDir
            /\ pos' = 0
            /\ file_size' = 0
            /\ bytes_read' = 0
            /\ lastOp' = Op("open", <<>>, <<>>, r.err)
       ELSE IF ScanContinue(r.bytes_read, file_size)
       THEN /\ state' = "Scanning"
            /\ key_dir' = r.key_dir
            /\ pos' = r.pos
            /\ file_size' = file_size
            /\ bytes_read' = r.bytes_read
            /\ lastOp' = lastOp
       ELSE /\ state' = "Open"
            /\ key_dir' = r.key_dir
            /\ pos' = Len(disk)
            /\ file_size' = 0
            /\ bytes_read' = 0
            /\ lastOp' = Op("open", <<>>, <<>>, "none")
    /\ UNCHANGED <<disk, wbuf, lastVal, landed, wrecs, truncOf, dirAtClose>>
    /\ UNCHANGED codec_vars

Set(key, value, timestamp) ==
    /\ state \in {"Open", "Closed"}
    /\ state = "Open" => Len(landed) + Len(wrecs) < MaxRecords
    /\ LET r == set(state, key_dir, Tell(pos, wbuf), timestamp, key, value) IN
       /\ key_dir' = r.key_dir
       /\ wbuf' = wbuf \o r.data
       /\ lastOp' = Op("set", key, <<>>, r.err)
       /\ IF r.err = "none"
          THEN /\ lastVal' = Put(lastVal, key, value)
               /\ wrecs' = Append(wrecs, [who |-> "this", at |-> Tell(pos, wbuf), key |-> key, data |-> r.data])
          ELSE UNCHANGED <<lastVal, wrecs>>
    /\ UNCHANGED <<disk, pos, state, file_size, bytes_read, landed, truncOf,
                   dirAtClose>>
    /\ UNCHANGED codec_vars

Get(key) ==
    /\ state \in {"Open", "Closed"}
    /\ LET touches == key \in DOMAIN key_dir /\ state = "Open"
           f == IF touches THEN Flush(disk, pos, wbuf)
                ELSE [disk |-> disk, pos |-> pos]
           r == get(state, key_dir, f.disk, key)
       IN /\ disk' = f.disk
          /\ wbuf' = IF touches THEN <<>> ELSE wbuf
          /\ landed' = IF touches THEN landed \o wrecs ELSE landed
          /\ wrecs' = IF touches THEN <<>> ELSE wrecs
          /\ pos' = IF touches /\ r.err # "OSError"
                    THEN SeekEnd(f.disk, key_dir, key) ELSE f.pos
          /\ lastOp' = Op("get", key, r.ret, r.err)
    /\ UNCHANGED <<key_dir, state, file_size, bytes_read, lastVal, truncOf,
                   dirAtClose>>
    /\ UNCHANGED codec_vars

Close ==
    /\ state \in {"Open", "Closed"}
    /\ LET f == IF state = "Open" THEN Flush(disk, pos, wbuf)
                ELSE [disk |-> disk, pos |-> pos]
       IN /\ disk' = f.disk
          /\ pos' = f.pos
    /\ wbuf' = <<>>
    /\ landed' = landed \o wrecs
    /\ wrecs' = <<>>
    /\ state' = "Closed"
    /\ lastOp' = Op("close", <<>>, <<>>, "none")
    /\ dirAtClose' = key_dir
    /\ UNCHANGED <<key_dir, file_size, bytes_read, lastVal, truncOf>>
    /\ UNCHANGED codec_vars

Next ==
    \/ Open
    \/ ScanStep
    \/ \E k \in Keys, v \in Values, t \in Timestamps : Set(k, v, t)
    \/ \E k \in Keys : Get(k)
    \/ Close

Spec == Init /\ [][Next]_vars

\* the file loses the last n bytes of its last record while no instance has
\* it open (a crash in the middle of a write, a damaged disk)
Truncate(n) ==
    /\ state \in {"None", "Closed"}
    /\ truncOf = <<>>
    /\ landed # <<>>
    /\ n < Len(landed[Len(landed)].data)
    /\ disk' = SubSeq(disk, 1, Len(disk) - n)
    /\ truncOf' = disk
    /\ UNCHANGED <<wbuf, pos, key_dir, state, file_size, bytes_read,
                   lastOp, lastVal, landed, wrecs, dirAtClose>>
    /\ UNCHANGED codec_vars

NextCorrupt ==
    \/ Next
    \/ \E n \in 1..Len(disk) : Truncate(n)

SpecCorrupt == Init /\ [][NextCorrupt]_vars

\* __init__ runs its loop on the calling thread, so an iteration that can be
\* taken is taken: weak fairness of ScanStep.  This is WF_vars(ScanStep) with
\* ENABLED <<ScanStep>>_vars written out as state = "Scanning" (an iteration
\* always raises or moves bytes_read, see C16)
SpecCorruptFair ==
    SpecCorrupt /\ ([]<>(state # "Scanning") \/ []<><<ScanStep>>_vars)

\* a second instance on the same path, in another process, sets a key and
\* its handle hands the record to the operating system
OtherAppend(key, value, timestamp) ==
    /\ Len(landed) + Len(wrecs) < MaxRecords
    /\ LET enc == encode_kv(timestamp, key, value)
           w == RawWrite(disk, Len(disk), enc.data)
       IN /\ disk' = w.disk
          /\ landed' = Append(landed, [who |-> "other", at |-> Len(disk),
                                       key |-> key, data |-> enc.data])
    /\ UNCHANGED <<wbuf, pos, key_dir, state, file_size, bytes_read,
                   lastOp, lastVal, wrecs, truncOf, dirAtClose>>
    /\ UNCHANGED codec_vars

NextMulti ==
    \/ Next
    \/ \E k \in Keys, v \in Values, t \in Timestamps : OtherAppend(k, v, t)

SpecMulti == Init /\ [][NextMulti]_vars

\* the keys whose entry in kd ends past n bytes
Dangling(kd, n) == {k \in DOMAIN kd : kd[k][1] + kd[k][2] > n}

\* set whose self.file.write(data) raises OSError (no space left, I/O fault):
\* the assignment to key_dir comes first in set and has been made, the handle
\* has taken none of the record's bytes
SetWriteFails(key, value, timestamp) ==
    /\ state = "Open"
    /\ Cardinality(Dangling(key_dir, Len(disk) + Len(wbuf))) < MaxDangling
    /\ LET r == set(state, key_dir, Tell(pos, wbuf), timestamp, key, value) IN
       key_dir' = r.key_dir
    /\ lastOp' = Op("set", key, <<>>, "OSError")
    /\ UNCHANGED <<disk, wbuf, pos, state, file_size, bytes_read,
                   lastVal, landed, wrecs, truncOf, dirAtClose>>
    /\ UNCHANGED codec_vars

NextFault ==
    \/ Next
    \/ \E k \in Keys, v \in Values, t \in Timestamps : SetWriteFails(k, v, t)

SpecFault == Init /\ [][NextFault]_vars

\* ------------------------------------------- the codec called on its own
InitCodec ==
    /\ disk = <<>>
    /\ wbuf = <<>>
    /\ pos = 0
    /\ key_dir = EmptyDir
    /\ state = "None"
    /\ file_size = 0
    /\ bytes_read = 0
    /\ lastOp = NoOp
    /\ lastVal = EmptyDir
    /\ landed = <<>>
    /\ wrecs = <<>>
    /\ truncOf = <<>>
    /\ dirAtClose = EmptyDir
    /\ c_phase = "in"
    /\ c_in \in [timestamp : CodecTimestamps, key : CodecTexts, value : CodecTexts]
    /\ c_enc = [sz |-> 0, data |-> <<>>]
    /\ c_buf = <<>>
    /\ c_out = [err |-> "none", timestamp |-> 0, key |-> <<>>, value |-> <<>>]

Encode ==
    /\ c_phase = "in"
    /\ c_enc' = encode_kv(c_in.timestamp, c_in.key, c_in.value)
    /\ c_buf' = c_enc'.data
    /\ c_phase' = "encoded"
    /\ UNCHANGED <<c_in, c_out>>
    /\ UNCHANGED engine_vars

\* the caller hands decode_kv a buffer one byte shorter or one byte longer
Resize ==
    /\ c_phase = "encoded"
    /\ c_buf' \in {Slice(c_buf, 0, Len(c_buf) - 1), c_buf \o <<99>>}
    /\ c_phase' = "resized"
    /\ UNCHANGED <<c_in, c_enc, c_out>>
    /\ UNCHANGED engine_vars

Decode ==
    /\ c_phase \in {"encoded", "resized"}
    /\ c_out' = decode_kv(c_buf)
    /\ c_phase' = "decoded"
    /\ UNCHANGED <<c_in, c_enc, c_buf>>
    /\ UNCHANGED engine_vars

NextCodec ==
    \/ Encode
    \/ Resize
    \/ Decode

SpecCodec == InitCodec /\ [][NextCodec]_vars

\* ------------------------------------------ the header functions on their own
InitHeader ==
    /\ disk = <<>>
    /\ wbuf = <<>>
    /\ pos = 0
    /\ key_dir = EmptyDir
    /\ state = "None"
    /\ file_size = 0
    /\ bytes_read = 0
    /\ lastOp = NoOp
    /\ lastVal = EmptyDir
    /\ landed = <<>>
    /\ wrecs = <<>>
    /\ truncOf = <<>>
    /\ dirAtClose = EmptyDir
    /\ c_phase = "hin"
    /\ c_in \in [timestamp : HeaderInts, key_size : HeaderInts, value_size : HeaderInts]
    /\ c_enc = [sz |-> 0, data |-> <<>>]
    /\ c_buf = <<>>
    /\ c_out = [err |-> "none", timestamp |-> 0, key_size |-> 0, value_size |-> 0]

EncodeHeader ==
    /\ c_phase = "hin"
    /\ c_buf' = encode_header(c_in.timestamp, c_in.key_size, c_in.value_size)
    /\ c_phase' = "hencoded"
    /\ UNCHANGED <<c_in, c_enc, c_out>>
    /\ UNCHANGED engine_vars

DecodeHeader ==
    /\ c_phase = "hencoded"
    /\ c_out' = decode_header(c_buf)
    /\ c_phase' = "hdecoded"
    /\ UNCHANGED <<c_in, c_enc, c_buf>>
    /\ UNCHANGED engine_vars

NextHeader ==
    \/ EncodeHeader
    \/ DecodeHeader

SpecHeader == InitHeader /\ [][NextHeader]_vars

\* ------------------------------------------------------------ properties
\* the file as the handle shows it: what is on disk and what is pending
View == disk \o wbuf

\* every record written so far, flushed or not
Written == landed \o wrecs

\* C1: on an open engine get(k) of a key that has been set returns the value
\* of the most recent set(k, v), for every UTF-8 key and value
C1_LastWriteWins ==
    (state = "Open" /\ lastOp.op = "get" /\ lastOp.key \in DOMAIN lastVal)
        => (lastOp.err = "none" /\ lastOp.ret = lastVal[lastOp.key])

\* C2: after sets, close() and a new open on the same path, the open succeeds,
\* the KeyDir has exactly the keys written and get returns each key's last value
C2_PersistAcrossReopen ==
    (lastOp.op = "open" /\ lastVal # EmptyDir)
        => /\ lastOp.err = "none"
           /\ state = "Open"
           /\ DOMAIN key_dir = DOMAIN lastVal
           /\ \A k \in DOMAIN lastVal :
                  get(state, key_dir, disk, k) = [err |-> "none", ret |-> lastVal[k]]

\* C3: get of a key that is not in the KeyDir returns the empty string and
\* raises nothing
C3_UnknownKey ==
    (state \in {"Open", "Closed"} /\ lastOp.op = "get" /\ lastOp.key \notin DOMAIN key_dir)
        => (lastOp.ret = <<>> /\ lastOp.err = "none")

C3_Witness ==
    /\ state = "Open"
    /\ lastOp.op = "get"
    /\ lastOp.key \notin DOMAIN key_dir
    /\ key_dir # EmptyDir

\* C4: no step shrinks the file or changes a byte it already has, and a set
\* that returns normally grows it by 12 + the key's bytes + the value's bytes
C4_AppendOnly ==
    [][/\ Slice(disk', 0, Len(disk)) = disk
       /\ Slice(View', 0, Len(View)) = View
       /\ Len(wrecs') = Len(wrecs) + 1
            => /\ lastOp'.op = "set" /\ lastOp'.err = "none"
               /\ Len(View') = Len(View) + 12 + Len(StrEncode(lastOp'.key))
                                + Len(StrEncode(lastVal'[lastOp'.key]))]_vars

\* a set of a key that already has a record in the file has returned
C4_Witness ==
    /\ lastOp.op = "set"
    /\ lastOp.err = "none"
    /\ Len(Written) >= 2
    /\ \E i \in 1..(Len(Written) - 1) : Written[i].key = lastOp.key
    /\ Len(StrEncode(lastOp.key)) = 2

\* a file of the format: complete records back to back, each header's sizes
\* the byte lengths of the key and the value that follow, both UTF-8
RECURSIVE WellFormed(_)
WellFormed(f) ==
    \/ f = <<>>
    \/ /\ Len(f) >= HEADER_SIZE
       /\ LET ks == Unpack32(SubSeq(f, 5, 8))
              vs == Unpack32(SubSeq(f, 9, 12))
              n == HEADER_SIZE + ks + vs
          IN /\ Len(f) >= n
             /\ BytesDecode(SubSeq(f, HEADER_SIZE + 1, HEADER_SIZE + ks)).err = "none"
             /\ BytesDecode(SubSeq(f, HEADER_SIZE + ks + 1, n)).err = "none"
             /\ WellFormed(Slice(f, n, Len(f)))

C6_RecordRoundTrip ==
    (c_phase = "decoded" /\ c_buf = c_enc.data)
        => c_out = [err |-> "none", timestamp |-> c_in.timestamp,
                    key |-> c_in.key, value |-> c_in.value]

\* C7: the header's key_size and value_size are the byte lengths of the key
\* and value that follow it, and the returned size is 12 + key_size +
\* value_size and the length of the returned bytes
C7_SizesAreByteLengths ==
    (c_phase = "encoded")
        => LET h == decode_header(Slice(c_enc.data, 0, HEADER_SIZE)) IN
           /\ h.key_size = Len(StrEncode(c_in.key))
           /\ h.value_size = Len(StrEncode(c_in.value))
           /\ c_enc.sz = HEADER_SIZE + h.key_size + h.value_size
           /\ c_enc.sz = Len(c_enc.data)

\* C8: decode_kv raises whenever the number of bytes after the 12-byte header
\* differs from the header's key_size + value_size
C8_LengthChecked ==
    (c_phase = "decoded" /\ Len(c_buf) >= HEADER_SIZE)
        => LET h == decode_header(Slice(c_buf, 0, HEADER_SIZE)) IN
           (Len(c_buf) - HEADER_SIZE # h.key_size + h.value_size)
               => c_out.err # "none"

\* a get or a set called on an instance whose close() has returned
ClosedCall == state = "Closed" /\ state' = "Closed" /\ lastOp'.op \in {"get", "set"}

\* C9 as stated: after close() every get and set raises and changes neither
\* the KeyDir nor the file
C9_ClosedAlwaysRaises ==
    [][ClosedCall => /\ lastOp'.err # "none"
                     /\ key_dir' = key_dir /\ disk' = disk /\ wbuf' = wbuf]_vars

\* C9 amended: after close() every set, and every get of a key in the KeyDir,
\* raises ValueError; a get of a key that is not in the KeyDir returns the
\* empty string; none of them changes the KeyDir or the file
C9_ClosedCalls ==
    [][ClosedCall =>
         /\ key_dir' = key_dir /\ disk' = disk /\ wbuf' = wbuf
         /\ lastOp'.op = "set" => lastOp'.err = "ValueError"
         /\ (lastOp'.op = "get" /\ lastOp'.key \in DOMAIN key_dir)
                => lastOp'.err = "ValueError"
         /\ (lastOp'.op = "get" /\ lastOp'.key \notin DOMAIN key_dir)
                => (lastOp'.err = "none" /\ lastOp'.ret = <<>>)]_vars

\* a set called after close() on an instance that holds keys has raised
C9_Witness ==
    /\ state = "Closed"
    /\ lastOp.op = "set"
    /\ lastOp.err = "ValueError"
    /\ key_dir # EmptyDir
    /\ lastOp.key \notin DOMAIN key_dir

\* C10: with another process appending to the same path, the file is the
\* records handed to the operating system, whole and in the order they were
\* handed over: each record was put at the end the file had at that time
C10_AppendAtTrueEnd == disk = ConcatData(landed)

\* a record of this engine lies behind the position its handle reported when
\* set was called: the other process appended in between
C10_Witness ==
    \E j \in 1..Len(landed) :
        /\ landed[j].who = "this"
        /\ landed[j].at < Len(ConcatData(SubSeq(landed, 1, j - 1)))
        /\ \E i \in 1..(j - 1) : landed[i].who = "other"

\* C11: encode_header of three unsigned 32-bit integers returns 12 bytes and
\* decode_header of these bytes returns the three integers
C11_HeaderRoundTrip ==
    /\ c_phase \in {"hencoded", "hdecoded"} => Len(c_buf) = 12
    /\ c_phase = "hdecoded"
         => c_out = [err |-> "none", timestamp |-> c_in.timestamp,
                     key_size |-> c_in.key_size, value_size |-> c_in.value_size]

\* a header of three different fields, each of more than one byte, has made
\* the round trip
C11_Witness ==
    /\ c_phase = "hdecoded"
    /\ c_in.timestamp = 2147483647
    /\ c_in.key_size = 258
    /\ c_in.value_size = 16909060

\* the offset in the file at which the i-th record written starts
RecStart(i) == Len(ConcatData(SubSeq(Written, 1, i - 1)))

\* the index of the record appended last for key k
LastRec(k) ==
    CHOOSE i \in 1..Len(Written) :
        /\ Written[i].key = k
        /\ \A j \in (i + 1)..Len(Written) : Written[j].key # k

\* C12: in every Open state the KeyDir has an entry for exactly the keys with
\* a record in the file, and each entry is the byte offset and the byte length
\* of the value of the key's last record, inside the file
C12_KeyDirInvariant ==
    state = "Open"
        => /\ DOMAIN key_dir = {Written[i].key : i \in 1..Len(Written)}
           /\ \A k \in DOMAIN key_dir :
                  LET i == LastRec(k)
                      voff == RecStart(i) + HEADER_SIZE + Len(StrEncode(k))
                      vlen == Len(Written[i].data) - HEADER_SIZE - Len(StrEncode(k))
                  IN /\ key_dir[k] = <<voff, vlen>>
                     /\ voff + vlen <= Len(View)

\* C13: whenever the engine is Open and no call is running, the position the
\* handle reports is the size of the file, and every record was appended at
\* the position the handle reported to the set that wrote it
C13_CursorAtEnd ==
    state = "Open"
        => /\ Tell(pos, wbuf) = Len(View)
           /\ \A i \in 1..Len(Written) : Written[i].at = RecStart(i)

\* a get has read a value that does not lie at the end of the file
C13_Witness ==
    /\ state = "Open"
    /\ lastOp.op = "get"
    /\ lastOp.err = "none"
    /\ lastOp.key \in DOMAIN key_dir
    /\ key_dir[lastOp.key][1] + key_dir[lastOp.key][2] < Len(disk)

\* C14: a set whose append fails with a write error leaves the KeyDir as it
\* was before the call, and no entry of the KeyDir points at bytes that were
\* never written
C14_FailedSetKeepsKeyDir ==
    [][(state = "Open" /\ lastOp'.op = "set" /\ lastOp'.err = "OSError")
          => /\ key_dir' = key_dir
             /\ \A k \in DOMAIN key_dir' :
                    key_dir'[k][1] + key_dir'[k][2] <= Len(View')]_vars

\* C15: the KeyDir the startup scan rebuilds from a file written by sets is
\* the KeyDir the writing engine held when it was closed
C15_ScanEqualsIndex ==
    (lastOp.op = "open" /\ landed # <<>>)
        => /\ lastOp.err = "none"
           /\ state = "Open"
           /\ key_dir = dirAtClose

\* C16: the scan loop of open ends for every file, cut and ill-formed ones
\* included.  Every iteration raises or adds at least a header's length to
\* bytes_read, an iteration that starts with bytes_read past file_size
\* raises, the loop is left for Open only with bytes_read equal to file_size,
\* and every scan that has started is left
C16_ScanTerminates ==
    /\ [](state = "Scanning"
            => LET r == ScanBody(disk, pos, key_dir, bytes_read) IN
               /\ bytes_read # file_size
               /\ r.err = "none" => r.bytes_read >= bytes_read + HEADER_SIZE
               /\ bytes_read > file_size => r.err # "none")
    /\ [][(state = "Scanning" /\ state' = "Open")
             => ScanBody(disk, pos, key_dir, bytes_read).bytes_read = file_size]_vars
    /\ [][(state = "Scanning" /\ state' = "None") => lastOp'.err # "none"]_vars
    /\ (state = "Scanning") ~> (state \in {"Open", "None"})

\* the loop is running with the counter past the size of a cut file
C16_Witness ==
    /\ state = "Scanning"
    /\ truncOf # <<>>
    /\ bytes_read > file_size

IsPrefix(a, b) == Len(a) <= Len(b) /\ SubSeq(b, 1, Len(a)) = a

GetStep == state \in {"Open", "Closed"} /\ state' = state /\ lastOp'.op = "get"

OpenStep == state \in {"None", "Closed", "Scanning"} /\ state' \in {"Scanning", "Open", "None"}

CloseStep == state \in {"Open", "Closed"} /\ state' = "Closed" /\ lastOp'.op = "close"

\* C17: get, of a present or an absent key, leaves the file as the handle
\* shows it and every KeyDir entry as they were, and on disk only hands over
\* bytes that earlier sets left pending; open with its scan changes no byte on
\* disk; close keeps every byte on disk and adds only the pending ones
C17_ReadOnlyOps ==
    /\ [][GetStep => /\ View' = View
                     /\ IsPrefix(disk, disk')
                     /\ key_dir' = key_dir]_vars
    /\ [][OpenStep => disk' = disk]_vars
    /\ [][CloseStep => /\ IsPrefix(disk, disk')
                       /\ disk' = View]_vars

\* a get of a present key has returned its value on a file that holds two
\* records or more
C17_Witness ==
    /\ state = "Open"
    /\ lastOp.op = "get"
    /\ lastOp.err = "none"
    /\ lastOp.ret # <<>>
    /\ Len(landed) >= 2
    /\ wbuf = <<>>

====
